---------------------------- MODULE Spec2Model ----------------------------
(***************************************************************************)
(* Model of the post -> letter pipeline of hellovoidworks/heard-app:        *)
(*   src/database/populate_letters/populate_from_reddit.py          (single)*)
(*   src/database/populate_letters/populate_from_multiple_subreddits.py     *)
(*                                                                  (multi) *)
(* Texts are TLA+ strings; substring containment, lower-casing and          *)
(* stripping are computed character by character, as Python's `in`,         *)
(* str.lower and str.strip compute them.  A value that is read several      *)
(* times is bound once, Python's assignment to a local: x \in {e} binds x   *)
(* to the value of e.                                                       *)
(***************************************************************************)
EXTENDS Integers, Sequences, FiniteSets, TLC

(***************************************************************************)
(* Bounds of the model.                                                     *)
(***************************************************************************)
\* longest text handed to the classifier, in vocabulary words
MaxTextWords == 2
\* longest category list supplied to the classifier
MaxCats == 2
\* longest text handed to the safety filter, in words of FilterWords
MaxFilterWords == 2
\* most submissions a listing yields before it raises
MaxReadBeforeError == 1
\* longest raw body handed to the normalizer, in pieces of BodyParts
MaxBodyParts == 2

(***************************************************************************)
(* Python string primitives.                                                *)
(***************************************************************************)
\* the lower-case letter of every upper-case letter
UpperToLower ==
    [A |-> "a", B |-> "b", C |-> "c", D |-> "d", E |-> "e", F |-> "f", G |-> "g",
     H |-> "h", I |-> "i", J |-> "j", K |-> "k", L |-> "l", M |-> "m", N |-> "n",
     O |-> "o", P |-> "p", Q |-> "q", R |-> "r", S |-> "s", T |-> "t", U |-> "u",
     V |-> "v", W |-> "w", X |-> "x", Y |-> "y", Z |-> "z"]

\* str.lower on one character
LowerChar(c) == IF c \in DOMAIN UpperToLower THEN UpperToLower[c] ELSE c

\* the element of a one-element set
The(S) == CHOOSE x \in S : TRUE

\* the lower-cased characters a..b of s (the range is split in halves to keep
\* the evaluation shallow)
RECURSIVE LowerRange(_, _, _)
LowerRange(s, a, b) ==
    IF a > b THEN ""
    ELSE IF a = b THEN LowerChar(SubSeq(s, a, a))
    ELSE The({ LowerRange(s, a, m) \o LowerRange(s, m + 1, b) :
                 m \in {(a + b) \div 2} })

\* str.lower
Lower(s) == The({ LowerRange(t, 1, Len(t)) : t \in {s} })

\* Python's `sub in s`
Contains(sub, s) ==
    \E u \in {sub}, t \in {s} :
        \E i \in 1..(Len(t) - Len(u) + 1) : SubSeq(t, i, i + Len(u) - 1) = u

\* Python's whitespace, as \s and str.strip see it
IsSpace(c) == c \in {" ", "\n", "\t", "\r", "\f"}

\* the least and the greatest element of a non-empty set of integers
Least(S) == The({ (CHOOSE a \in T : \A b \in T : a <= b) : T \in {S} })

Greatest(S) == The({ (CHOOSE a \in T : \A b \in T : b <= a) : T \in {S} })

\* str.strip: the text between the first and the last non-space character
Strip(s) ==
    The({ The({ IF solid = {} THEN "" ELSE SubSeq(t, Least(solid), Greatest(solid)) :
                  solid \in {{ k \in 1..Len(t) : ~IsSpace(SubSeq(t, k, k)) }} }) :
            t \in {s} })

Char(s, i) == SubSeq(s, i, i)

StartsWithAt(s, i, prefix) ==
    /\ i + Len(prefix) - 1 <= Len(s)
    /\ SubSeq(s, i, i + Len(prefix) - 1) = prefix

IsDigit(c) == c \in {"0", "1", "2", "3", "4", "5", "6", "7", "8", "9"}

\* the first index from i on whose character is a space, Len(s) + 1 if none
EndOfNonSpace(s, i) ==
    Least({ k \in i..Len(s) : IsSpace(Char(s, k)) } \cup { Len(s) + 1 })

\* the first index from i on whose character is not a space
EndOfSpace(s, i) ==
    Least({ k \in i..Len(s) : ~IsSpace(Char(s, k)) } \cup { Len(s) + 1 })

\* the first index from i on whose character is not a digit
EndOfDigits(s, i) ==
    Least({ k \in i..Len(s) : ~IsDigit(Char(s, k)) } \cup { Len(s) + 1 })

\* the first index from i on whose character is not a newline
EndOfNewlines(s, i) ==
    Least({ k \in i..Len(s) : Char(s, k) # "\n" } \cup { Len(s) + 1 })

(***************************************************************************)
(* Content normalizer: populate_from_reddit.py, clean_content.  Each re.sub *)
(* replaces the leftmost match, then resumes the scan after it.             *)
(***************************************************************************)
\* the length of the scheme of a URL that starts at i, 0 if none starts there
UrlSchemeAt(s, i) ==
    LET scheme == IF StartsWithAt(s, i, "https://") THEN 8
                  ELSE IF StartsWithAt(s, i, "http://") THEN 7
                  ELSE 0
    IN  IF scheme > 0 /\ EndOfNonSpace(s, i + scheme) > i + scheme THEN scheme ELSE 0

\* re.sub(r'https?://\S+', '', content), from index i on
RECURSIVE RemoveUrlsFrom(_, _)
RemoveUrlsFrom(s, i) ==
    The({ IF starts = {} THEN SubSeq(s, from, Len(s))
          ELSE The({ SubSeq(s, from, k - 1)
                         \o RemoveUrlsFrom(s, EndOfNonSpace(s, k + UrlSchemeAt(s, k))) :
                       k \in {Least(starts)} }) :
            from \in {i}, starts \in {{ k \in i..Len(s) : UrlSchemeAt(s, k) > 0 }} })

NoNewline(s, a, b) == \A m \in a..b : Char(s, m) # "\n"

\* the indices j of a "](" that closes a label opened at i and is followed, on
\* the same line, by a ")"
LinkCloses(s, i) ==
    { j \in (i + 1)..(Len(s) - 1) :
        /\ Char(s, j) = "]" /\ Char(s, j + 1) = "("
        /\ NoNewline(s, i + 1, j - 1)
        /\ \E k \in (j + 2)..Len(s) : Char(s, k) = ")" /\ NoNewline(s, j + 2, k - 1) }

\* the index of the first ")" that ends, on the same line, the target opened
\* by the "](" at j
LinkEnd(s, j) ==
    Least({ m \in (j + 2)..Len(s) : Char(s, m) = ")" /\ NoNewline(s, j + 2, m - 1) })

\* re.sub(r'\[(.*?)\]\(.*?\)', r'\1', content), from index i on
RECURSIVE CollapseLinksFrom(_, _)
CollapseLinksFrom(s, i) ==
    The({ IF starts = {} THEN SubSeq(s, from, Len(s))
          ELSE The({ SubSeq(s, from, o - 1) \o SubSeq(s, o + 1, j - 1)
                         \o CollapseLinksFrom(s, LinkEnd(s, j) + 1) :
                       o \in {Least(starts)}, j \in {Least(LinkCloses(s, Least(starts)))} }) :
            from \in {i},
            starts \in {{ k \in i..Len(s) : Char(s, k) = "[" /\ LinkCloses(s, k) # {} }} })

\* the index of the ":" that ends a marker starting at i, 0 if none starts there
MarkerColonAt(s, i, word) ==
    IF /\ i + Len(word) - 1 <= Len(s)
       /\ Lower(SubSeq(s, i, i + Len(word) - 1)) = word
    THEN The({ IF e <= Len(s) /\ Char(s, e) = ":" THEN e ELSE 0 :
                 e \in {EndOfSpace(s, EndOfDigits(s, EndOfSpace(s, i + Len(word))))} })
    ELSE 0

\* re.sub(word + r'(\s*\d*\s*)?:', '', content, flags=re.IGNORECASE), from
\* index i on
RECURSIVE RemoveMarkerFrom(_, _, _)
RemoveMarkerFrom(s, i, word) ==
    The({ IF starts = {} THEN SubSeq(s, from, Len(s))
          ELSE The({ SubSeq(s, from, k - 1)
                         \o RemoveMarkerFrom(s, MarkerColonAt(s, k, word) + 1, word) :
                       k \in {Least(starts)} }) :
            from \in {i},
            starts \in {{ k \in i..Len(s) : MarkerColonAt(s, k, word) > 0 }} })

\* re.sub(r'\n{3,}', '\n\n', content), from index i on
RECURSIVE CollapseNewlinesFrom(_, _)
CollapseNewlinesFrom(s, i) ==
    The({ IF starts = {} THEN SubSeq(s, from, Len(s))
          ELSE The({ SubSeq(s, from, k - 1) \o "\n\n"
                         \o CollapseNewlinesFrom(s, EndOfNewlines(s, k)) :
                       k \in {Least(starts)} }) :
            from \in {i},
            starts \in {{ k \in i..Len(s) : EndOfNewlines(s, k) - k >= 3 }} })

\* clean_content(content)
CleanContent(content) ==
    LET no_urls == { RemoveUrlsFrom(t, 1) : t \in {content} }
        no_links == { CollapseLinksFrom(t, 1) : t \in no_urls }
        no_edit == { RemoveMarkerFrom(t, 1, "edit") : t \in no_links }
        no_update == { RemoveMarkerFrom(t, 1, "update") : t \in no_edit }
        spaced == { CollapseNewlinesFrom(t, 1) : t \in no_update }
    IN  The({ Strip(t) : t \in spaced })

(***************************************************************************)
(* Keyword classifier: populate_from_reddit.py, assign_category_keyword.    *)
(***************************************************************************)
\* the keys of category_keywords, in the dict's insertion order
CategoryKeywordNames ==
    << "Love", "Financial", "Family", "Friendship", "Vent", "Health",
       "Reflections", "Intimacy", "Spiritual" >>

\* category_keywords[name]
CategoryKeywords(name) ==
    CASE name = "Love" ->
           << "love", "relationship", "boyfriend", "girlfriend", "dating",
              "marriage", "crush", "partner", "husband", "wife", "romance",
              "breakup", "ex" >>
      [] name = "Financial" ->
           << "money", "debt", "finance", "financial", "job", "income", "loan",
              "budget", "savings", "bills", "rent", "salary", "career", "bank",
              "tax", "invest" >>
      [] name = "Family" ->
           << "family", "parent", "mother", "father", "dad", "mom", "son",
              "daughter", "sibling", "brother", "sister", "grandparent",
              "cousin", "uncle", "aunt", "in-law", "child" >>
      [] name = "Friendship" ->
           << "friend", "friendship", "best friend", "buddy", "pal",
              "social circle", "acquaintance", "colleague", "betrayal",
              "trust" >>
      [] name = "Vent" ->
           << "angry", "frustrated", "tired of", "sick of", "annoyed",
              "irritated", "furious", "fed up", "rant", "vent", "complaint",
              "venting", "upset", "mad" >>
      [] name = "Health" ->
           << "health", "doctor", "medical", "sick", "illness", "disease",
              "diagnosis", "pain", "symptom", "weight", "diet", "exercise",
              "mental health", "therapy", "medication" >>
      [] name = "Reflections" ->
           << "thinking about", "reflect", "wonder", "contemplating",
              "perspective", "realization", "epiphany", "awakening",
              "retrospect", "introspection", "growth", "change" >>
      [] name = "Intimacy" ->
           << "sex", "intimate", "physical", "sexual", "attraction", "desire",
              "bedroom", "consent", "virgin", "pleasure", "passion" >>
      [] name = "Spiritual" ->
           << "god", "faith", "religion", "spiritual", "belief", "prayer",
              "meditation", "soul", "universe", "divine", "church", "temple",
              "mosque", "worship" >>

\* score = sum(1 for keyword in keywords if keyword in content_lower)
KeywordScore(keywords, content_lower) ==
    Cardinality({k \in 1..Len(keywords) : Contains(keywords[k], content_lower)})

\* matches: the score of every key of category_keywords
Matches(post_content) ==
    The({ [n \in 1..Len(CategoryKeywordNames) |->
              KeywordScore(CategoryKeywords(CategoryKeywordNames[n]), content_lower)] :
            content_lower \in {Lower(post_content)} })

\* mutant: max replaced by a scan that keeps the last maximal item
BestMatchOf_LastMax(matches) ==
    The({ The({ [name |-> CategoryKeywordNames[n], score |-> m[n]] :
                  n \in { a \in DOMAIN m :
                            /\ \A b \in DOMAIN m : m[b] <= m[a]
                            /\ \A b \in DOMAIN m : b > a => m[b] < m[a] } }) :
            m \in {matches} })

\* best_match = max(matches.items(), key=lambda x: x[1]): Python's max keeps the
\* first maximal item in the dict's iteration order
BestMatchOf(matches) ==
    The({ The({ [name |-> CategoryKeywordNames[n], score |-> m[n]] :
                  n \in { a \in DOMAIN m :
                            /\ \A b \in DOMAIN m : m[b] <= m[a]
                            /\ \A b \in DOMAIN m : b < a => m[b] < m[a] } }) :
            m \in {matches} })

\* the first category of the list named `name`, 0 if there is none
\* (for category in categories: if category["name"] == best_match[0])
FirstNamed(categories, name) ==
    IF \E k \in 1..Len(categories) : categories[k].name = name
    THEN CHOOSE k \in 1..Len(categories) :
             /\ categories[k].name = name
             /\ \A j \in 1..(k - 1) : categories[j].name # name
    ELSE 0

\* mutant: the final `return categories[0]["id"]` missing, so that a best match
\* naming no supplied category returns None
AssignCategoryKeyword_NoFallback(post_content, categories, rnd) ==
    The({ IF best_match.score = 0 THEN categories[rnd].id
          ELSE IF FirstNamed(categories, best_match.name) # 0
          THEN categories[FirstNamed(categories, best_match.name)].id
          ELSE "None" :
            best_match \in {BestMatchOf(Matches(post_content))} })

\* mutant: the random pick taken whatever the best score
AssignCategoryKeyword_AlwaysRandom(post_content, categories, rnd) ==
    categories[rnd].id

\* assign_category_keyword(post_content, categories); rnd is the index that
\* random.choice draws, read only where the code calls random.choice
AssignCategoryKeyword(post_content, categories, rnd) ==
    The({ IF best_match.score = 0 THEN categories[rnd].id
          ELSE IF FirstNamed(categories, best_match.name) # 0
          THEN categories[FirstNamed(categories, best_match.name)].id
          ELSE categories[1].id :
            best_match \in {BestMatchOf(Matches(post_content))} })

(***************************************************************************)
(* Model-assisted classifier: assign_category_with_ollama.  A reply of the  *)
(* model collaborator is an exception raised by requests.post (transport    *)
(* error, timeout) or an HTTP response with a status code and the text of   *)
(* its "response" field.                                                    *)
(***************************************************************************)
\* requests.post raised: a transport error or the 60 s timeout
ReplyRaised(reply) == reply.kind \in {"error", "timeout"}

ReplyFailed(reply) == ReplyRaised(reply) \/ reply.status # 200

\* the first category whose lower-cased name equals the lower-cased response
FirstExact(categories, category_response) ==
    IF \E k \in 1..Len(categories) :
           Lower(categories[k].name) = Lower(category_response)
    THEN CHOOSE k \in 1..Len(categories) :
             /\ Lower(categories[k].name) = Lower(category_response)
             /\ \A j \in 1..(k - 1) :
                    Lower(categories[j].name) # Lower(category_response)
    ELSE 0

\* the first category whose lower-cased name is contained in the lower-cased
\* response
FirstPartial(categories, category_response) ==
    IF \E k \in 1..Len(categories) :
           Contains(Lower(categories[k].name), Lower(category_response))
    THEN CHOOSE k \in 1..Len(categories) :
             /\ Contains(Lower(categories[k].name), Lower(category_response))
             /\ \A j \in 1..(k - 1) :
                    ~Contains(Lower(categories[j].name), Lower(category_response))
    ELSE 0

\* mutant: the partial match tried before the exact match
CategoryOfResponse_PartialFirst(post_content, categories, response, rnd) ==
    The({ IF FirstPartial(categories, category_response) # 0
          THEN categories[FirstPartial(categories, category_response)].id
          ELSE IF FirstExact(categories, category_response) # 0
          THEN categories[FirstExact(categories, category_response)].id
          ELSE AssignCategoryKeyword(post_content, categories, rnd) :
            category_response \in {Strip(response)} })

\* the category matched by the stripped response of a status-200 reply, the
\* keyword strategy's if none matches
CategoryOfResponse(post_content, categories, response, rnd) ==
    The({ IF FirstExact(categories, category_response) # 0
          THEN categories[FirstExact(categories, category_response)].id
          ELSE IF FirstPartial(categories, category_response) # 0
          THEN categories[FirstPartial(categories, category_response)].id
          ELSE AssignCategoryKeyword(post_content, categories, rnd) :
            category_response \in {Strip(response)} })

\* mutant: the except branch returns the first category instead of falling back
AssignCategoryWithOllama_FirstOnError(post_content, categories, reply, rnd) ==
    IF ReplyRaised(reply)
    THEN categories[1].id
    ELSE IF reply.status = 200
    THEN CategoryOfResponse(post_content, categories, reply.response, rnd)
    ELSE AssignCategoryKeyword(post_content, categories, rnd)

\* assign_category_with_ollama(post_content, categories)
AssignCategoryWithOllama(post_content, categories, reply, rnd) ==
    IF ReplyRaised(reply)
    THEN AssignCategoryKeyword(post_content, categories, rnd)
    ELSE IF reply.status = 200
    THEN CategoryOfResponse(post_content, categories, reply.response, rnd)
    ELSE AssignCategoryKeyword(post_content, categories, rnd)

\* assign_category; use_ollama is OLLAMA_ENABLED
AssignCategory(post_content, categories, use_ollama, reply, rnd) ==
    IF use_ollama
    THEN AssignCategoryWithOllama(post_content, categories, reply, rnd)
    ELSE AssignCategoryKeyword(post_content, categories, rnd)

(***************************************************************************)
(* The source collaborator: what Reddit lists for each subreddit.           *)
(***************************************************************************)
Submission(id, title, selftext, is_self) ==
    [id |-> id, title |-> title, selftext |-> selftext, is_self |-> is_self]

\* the top listing of a subreddit in the modelled world
Listing(subreddit_name) ==
    CASE subreddit_name = "offmychest" ->
           << Submission("p1", "I need advice",
                  "My relationship with my partner is falling apart and I don't know what to do.",
                  TRUE),
              Submission("p5", "Gone", "[removed]", TRUE),
              Submission("p2", "Feeling hopeless",
                  "I think about Suicide a lot lately and I am scared of myself.",
                  TRUE),
              Submission("p4", "She finally called",
                  "My mother called me today after two years of silence and I did not know what to say to her.",
                  TRUE) >>
      [] subreddit_name = "confessions" ->
           << Submission("p3", "Long time Reddit lurker",
                  "I am so tired of my job and my boss that I stopped answering at work.",
                  TRUE),
              Submission("p6", "Look at this", "", FALSE) >>
      [] OTHER -> << >>

\* the value of a key a post dict does not have
None == "None"

Take(seq, n) == SubSeq(seq, 1, IF n < Len(seq) THEN n ELSE Len(seq))

LIMIT == 50
DEFAULT_POSTS_PER_SUBREDDIT == 100
MinSelftextSingle == 20
MinSelftextMulti == 50

\* the post dict fetch_posts builds from a submission
PostOf(sub, subreddit) ==
    [id |-> sub.id, title |-> sub.title, content |-> sub.selftext,
     subreddit |-> subreddit, category_name |-> None]

\* populate_from_reddit.py fetch_posts: the posts kept from the listing
FetchPostsSingle(subreddit_name, limit) ==
    LET listing == Take(Listing(subreddit_name), limit)
        valid(sub) == ~( \/ Len(sub.selftext) = 0
                         \/ sub.selftext = "[removed]"
                         \/ sub.selftext = "[deleted]"
                         \/ Len(sub.selftext) < MinSelftextSingle )
        kept == SelectSeq(listing, valid)
    IN  [k \in 1..Len(kept) |-> PostOf(kept[k], None)]

\* populate_from_multiple_subreddits.py fetch_posts; fail_at = 0: the listing
\* is read to its end, fail_at = k > 0: the listing raises when asked for its
\* k-th submission, and the except clauses of fetch_posts leave the loop with
\* the posts appended so far
FetchPostsMulti(subreddit_name, limit, fail_at) ==
    LET whole == Take(Listing(subreddit_name), limit)
        listing == IF fail_at = 0 THEN whole ELSE Take(whole, fail_at - 1)
        valid(sub) == ~( \/ ~sub.is_self
                         \/ Len(sub.selftext) = 0
                         \/ sub.selftext = "[removed]"
                         \/ sub.selftext = "[deleted]"
                         \/ Len(sub.selftext) < MinSelftextMulti )
        kept == SelectSeq(listing, valid)
    IN  [k \in 1..Len(kept) |-> PostOf(kept[k], subreddit_name)]

\* the keys of SUBREDDIT_CATEGORIES
SubredditCategoryNames ==
    { "Love", "Money", "Family", "Friends", "Vent", "Health", "Life", "Spicy",
      "Confess", "Good Vibes" }

\* SUBREDDIT_CATEGORIES[name]
SUBREDDIT_CATEGORIES(name) ==
    CASE name = "Love" ->
           << "relationship_advice", "dating", "dating_advice", "love", "Marriage",
              "BreakUps", "LongDistance" >>
      [] name = "Money" ->
           << "personalfinance", "povertyfinance", "jobs", "careerguidance",
              "financialindependence", "frugal", "studentloans" >>
      [] name = "Family" ->
           << "parenting", "family", "raisedbynarcissists", "JUSTNOFAMILY",
              "JUSTNOMIL", "daddit", "Mommit" >>
      [] name = "Friends" ->
           << "friendship", "socialskills", "MakeNewFriendsHere",
              "FriendshipAdvice", "depression_help" >>
      [] name = "Vent" ->
           << "offmychest", "rant", "TrueOffMyChest", "venting", "Anger",
              "complaints" >>
      [] name = "Health" ->
           << "HealthAnxiety", "ChronicPain", "ChronicIllness", "mentalhealth",
              "depression", "anxiety", "AskDocs" >>
      [] name = "Life" ->
           << "Showerthoughts", "self", "Meditation", "Mindfulness", "philosophy",
              "selfimprovement", "GetMotivated" >>
      [] name = "Spicy" ->
           << "sex", "sexadvice", "deadbedrooms", "AskMen", "AskWomen" >>
      [] name = "Confess" ->
           << "confessions", "TrueOffMyChest", "offmychest", "confession" >>
      [] name = "Good Vibes" ->
           << "MadeMeSmile", "UpliftingNews", "happy", "CongratsLikeImFive",
              "toastme", "GetMotivated" >>

\* random.sample(subreddits, min(3, len(subreddits))): every ordered draw of
\* distinct subreddits
Samples(subreddits) ==
    LET n == IF Len(subreddits) < 3 THEN Len(subreddits) ELSE 3
    IN  { [k \in 1..n |-> subreddits[f[k]]] :
            f \in { g \in [1..n -> 1..Len(subreddits)] :
                      \A a, b \in 1..n : a # b => g[a] # g[b] } }

\* one iteration of `for category in categories` in fetch_from_all_categories:
\* the posts the selected subreddits add to all_posts, tagged with the category
RECURSIVE FetchSelected(_, _, _, _)
FetchSelected(selected_subreddits, limit_per_sub, category_name, fails) ==
    IF Len(selected_subreddits) = 0 THEN << >>
    ELSE LET posts == FetchPostsMulti(Head(selected_subreddits), limit_per_sub,
                                      Head(fails))
             tagged == [k \in 1..Len(posts) |->
                           [posts[k] EXCEPT !.category_name = category_name]]
         IN  tagged \o FetchSelected(Tail(selected_subreddits), limit_per_sub,
                                     category_name, Tail(fails))

\* where the listings of n selected subreddits raise: at most one of them does,
\* before anything was read or after up to MaxReadBeforeError submissions
FailureChoices(n) ==
    { f \in [1..n -> 0..(MaxReadBeforeError + 1)] :
        Cardinality({ j \in 1..n : f[j] # 0 }) <= 1 }

\* mutant: a dict that keeps the value of the first insertion of a key
DictPut_KeepFirst(d, post) ==
    IF \E j \in 1..Len(d) : d[j].id = post.id THEN d ELSE Append(d, post)

\* d[post['id']] = post on a dict kept as the list of its values in insertion
\* order: a new key is appended, an existing key keeps its place and takes the
\* new value
DictPut(d, post) ==
    IF \E j \in 1..Len(d) : d[j].id = post.id
    THEN [j \in 1..Len(d) |-> IF d[j].id = post.id THEN post ELSE d[j]]
    ELSE Append(d, post)

\* mutant: no deduplication, every fetched post kept
Deduplicate_KeepAll(all_posts) == all_posts

\* list({post['id']: post for post in all_posts}.values())
RECURSIVE DictValues(_, _)
DictValues(d, rest) ==
    IF Len(rest) = 0 THEN d ELSE DictValues(DictPut(d, Head(rest)), Tail(rest))

Deduplicate(all_posts) == DictValues(<< >>, all_posts)

(***************************************************************************)
(* Safety filter: contains_skip_keywords and the Reddit rule of main.       *)
(***************************************************************************)
SKIP_KEYWORDS ==
    << "suicide", "kill myself", "killing myself", "self harm", "cutting myself",
       "rape", "molest", "assault", "abuse", "domestic violence", "genocide",
       "terrorist", "terrorism" >>

\* mutant: the text compared without lower-casing it
ContainsSkipKeywords_CaseSensitive(text) ==
    \E k \in 1..Len(SKIP_KEYWORDS) : Contains(Lower(SKIP_KEYWORDS[k]), text)

ContainsSkipKeywords(text) ==
    \E text_lower \in {Lower(text)} :
        \E k \in 1..Len(SKIP_KEYWORDS) : Contains(Lower(SKIP_KEYWORDS[k]), text_lower)

\* the keyword contains_skip_keywords prints before it returns True: the first
\* of SKIP_KEYWORDS contained in the lower-cased text; None when it returns False
SkipKeywordPrinted(text) ==
    The({ The({ IF hits = {} THEN None ELSE SKIP_KEYWORDS[Least(hits)] :
                  hits \in {{ k \in 1..Len(SKIP_KEYWORDS) :
                               Contains(Lower(SKIP_KEYWORDS[k]), text_lower) }} }) :
            text_lower \in {Lower(text)} })

\* mutant: the text searched for "reddit" without lower-casing it
MentionsReddit_CaseSensitive(text) == Contains("reddit", text)

\* "reddit" in combined_text.lower()
MentionsReddit(text) == Contains("reddit", Lower(text))

\* len(text.split()): the number of maximal runs of non-space characters
WordCount(text) ==
    The({ Cardinality({ k \in 1..Len(t) :
                          /\ ~IsSpace(SubSeq(t, k, k))
                          /\ (k = 1 \/ IsSpace(SubSeq(t, k - 1, k - 1))) }) :
            t \in {text} })

ShortPostWords == 20

(***************************************************************************)
(* Model collaborator of populate_from_multiple_subreddits.py (ollama.chat) *)
(* and the stages built on it.  A chat reply is a message content or an     *)
(* exception; is_ollama_running is the outcome of the ollama.list() ping.   *)
(* Emoji are written as their code points, a reply to the emoji prompt as   *)
(* the sequence of the code points of its characters.                       *)
(***************************************************************************)
ALLOWED_EMOJIS ==
    << 128524, 129303, 128076, 128151, 128513, 129393, 128554, 128533, 128534,
       128520, 128543, 128564, 128546, 129765, 128148, 128553, 128545, 129768,
       128552, 129760 >>
DEFAULT_EMOJI == 128524
DEFAULT_DISPLAY_NAME == "Anon"

\* the bounds of the character class [\U0001F300-\U0001FAFF]
EmojiRangeLow == 127744
EmojiRangeHigh == 129791

ChatOk(content) == [kind |-> "ok", content |-> content]
ChatError == [kind |-> "error", content |-> ""]

\* ollama_rewrite_post(text)
OllamaRewritePost(text, running, reply) ==
    IF ~running THEN text
    ELSE IF reply.kind = "ok" THEN Strip(reply.content)
    ELSE text

\* the expansion of a short post, inline in main
ExpandShortPost(original_text, running, reply) ==
    IF reply.kind = "ok" /\ running THEN Strip(reply.content)
    ELSE original_text

\* the indices random.choice(ALLOWED_EMOJIS) is taken to draw: the first and
\* the last
EmojiDraws == { 1, Len(ALLOWED_EMOJIS) }

\* mutant: the first emoji found returned without the test of membership in
\* ALLOWED_EMOJIS
OllamaGetEmoji_NoMembership(running, reply, rnd) ==
    IF ~running THEN DEFAULT_EMOJI
    ELSE IF reply.kind = "ok"
    THEN LET in_range(cp) == EmojiRangeLow <= cp /\ cp <= EmojiRangeHigh
             emojis_found == SelectSeq(reply.content, in_range)
         IN  IF Len(emojis_found) > 0 THEN emojis_found[1] ELSE ALLOWED_EMOJIS[rnd]
    ELSE ALLOWED_EMOJIS[rnd]

\* mutant: the except clause returning the default emoji instead of a draw
OllamaGetEmoji_DefaultOnError(running, reply, rnd) ==
    IF ~running THEN DEFAULT_EMOJI
    ELSE IF reply.kind = "ok"
    THEN LET in_range(cp) == EmojiRangeLow <= cp /\ cp <= EmojiRangeHigh
             emojis_found == SelectSeq(reply.content, in_range)
         IN  IF /\ Len(emojis_found) > 0
                /\ \E k \in 1..Len(ALLOWED_EMOJIS) : ALLOWED_EMOJIS[k] = emojis_found[1]
             THEN emojis_found[1]
             ELSE ALLOWED_EMOJIS[rnd]
    ELSE DEFAULT_EMOJI

\* ollama_get_emoji(text); rnd is the index random.choice draws
OllamaGetEmoji(running, reply, rnd) ==
    IF ~running THEN DEFAULT_EMOJI
    ELSE IF reply.kind = "ok"
    THEN LET in_range(cp) == EmojiRangeLow <= cp /\ cp <= EmojiRangeHigh
             emojis_found == SelectSeq(reply.content, in_range)
         IN  IF /\ Len(emojis_found) > 0
                /\ \E k \in 1..Len(ALLOWED_EMOJIS) : ALLOWED_EMOJIS[k] = emojis_found[1]
             THEN emojis_found[1]
             ELSE ALLOWED_EMOJIS[rnd]
    ELSE ALLOWED_EMOJIS[rnd]

\* the characters a..b of s that are not " "
RECURSIVE WithoutSpaces(_, _, _)
WithoutSpaces(s, a, b) ==
    IF a > b THEN ""
    ELSE IF a = b THEN (IF SubSeq(s, a, a) = " " THEN "" ELSE SubSeq(s, a, a))
    ELSE The({ WithoutSpaces(s, a, m) \o WithoutSpaces(s, m + 1, b) :
                 m \in {(a + b) \div 2} })

\* str.replace(" ", "")
RemoveSpaces(s) == The({ WithoutSpaces(t, 1, Len(t)) : t \in {s} })

MaxDisplayNameLen == 30

\* ollama_get_display_name(text)
OllamaGetDisplayName(running, reply) ==
    IF ~running THEN DEFAULT_DISPLAY_NAME
    ELSE IF reply.kind = "ok"
    THEN The({ IF Len(name) < MaxDisplayNameLen THEN name
               ELSE Lower(DEFAULT_DISPLAY_NAME) :
                 name \in {RemoveSpaces(Lower(Strip(reply.content)))} })
    ELSE Lower(DEFAULT_DISPLAY_NAME)

\* replies of the model to the rewrite and expansion prompts
RewriteChatReplies == { ChatOk("  A shorter letter about the same day. \n"), ChatError }

\* replies of the model to the emoji prompt: an allowed emoji, an emoji outside
\* the list, no emoji, text followed by two emoji, an exception
EmojiChatReplies ==
    { ChatOk(<< 128545 >>), ChatOk(<< 128578 >>), ChatOk(<< >>),
      ChatOk(<< 72, 105, 32, 128148, 128524 >>),
      [kind |-> "error", content |-> << >>] }

\* replies of the model to the display-name prompt
NameChatReplies ==
    { ChatOk(" Quiet Observer\n"), ChatOk(""),
      ChatOk("TheOneWhoWandersThroughTheNightAlone"), ChatError }

(***************************************************************************)
(* Model collaborator of populate_from_reddit.py (HTTP) for the rewrite.    *)
(* The "response" text of a status-200 reply is given by what the search    *)
(* for a {...} object and eval make of it.                                  *)
(***************************************************************************)
\* parsed: "pair" (a dict with title and content strings), "nonstring" (a dict
\* with both keys whose title is no string), "missing_key", "no_json",
\* "eval_error" (eval raises an Exception, caught by the inner except),
\* "eval_exit" (eval raises SystemExit, as on the response {exit()}: no
\* `except Exception` of the script catches it and the process ends)
RewriteReply(kind, status, parsed, title, content) ==
    [kind |-> kind, status |-> status, parsed |-> parsed, title |-> title,
     content |-> content]

RewriteReplies ==
    { RewriteReply("error", 0, "none", "", ""),
      RewriteReply("timeout", 0, "none", "", ""),
      RewriteReply("http", 500, "none", "", ""),
      RewriteReply("http", 200, "pair", "A letter to you",
                   "Dear friend, my family and I are drifting apart."),
      RewriteReply("http", 200, "nonstring", "5", "Dear friend."),
      RewriteReply("http", 200, "missing_key", "A letter to you", ""),
      RewriteReply("http", 200, "no_json", "", ""),
      RewriteReply("http", 200, "eval_error", "", ""),
      RewriteReply("http", 200, "eval_exit", "", "") }

\* rewrite_post_with_ollama(title, content): the dict returned; is_str tells
\* whether its title is a string, exits whether the call ended the process
\* instead of returning
RewritePostWithOllama(title, content, reply) ==
    IF reply.kind = "http" /\ reply.status = 200 /\ reply.parsed \in {"pair", "nonstring"}
    THEN [title |-> reply.title, content |-> reply.content,
          is_str |-> reply.parsed = "pair", exits |-> FALSE]
    ELSE [title |-> title, content |-> content, is_str |-> TRUE,
          exits |-> reply.kind = "http" /\ reply.status = 200
                        /\ reply.parsed = "eval_exit"]

\* fake.user_name()
FakeUserNames == { "jsmith", "maria_lopez84" }

(***************************************************************************)
(* Persistence collaborator: save_letter.  The insert returns rows, returns *)
(* no rows, or raises.                                                      *)
(***************************************************************************)
InsertReplies == { "rows", "no_rows", "error" }

\* mutant: an insert that returns no rows taken for a success
SaveLetter_NoRowsOk(insert_reply) == insert_reply # "error"

\* save_letter(supabase, letter): True or False, never raises
SaveLetter(insert_reply) == insert_reply = "rows"

\* mutant: the delay taken only on the branch of a successful save
PacingDelay_OnlyWhenSaved(saved, seconds) ==
    IF saved THEN << [stage |-> "sleep", input |-> seconds] >> ELSE << >>

\* time.sleep(seconds) of main, the statement after the `if save_letter(...)`:
\* it runs whatever save_letter returned
PacingDelay(saved, seconds) == << [stage |-> "sleep", input |-> seconds] >>

\* the argument of time.sleep in populate_from_reddit.py and in
\* populate_from_multiple_subreddits.py
SleepSingle == "0.5"
SleepMulti == "1"

(***************************************************************************)
(* Setup: clients, categories and user ids.                                 *)
(***************************************************************************)
\* setup_reddit and setup_supabase raise ValueError on missing credentials
SetupRaises(e) == ~e.reddit_creds \/ ~e.supabase_creds

\* mutant: get_categories of populate_from_reddit.py returning the empty list
GetCategoriesSingleRaises_Never(rows) == FALSE

\* populate_from_reddit.py get_categories raises when the table is empty
GetCategoriesSingleRaises(rows) == Len(rows) = 0

\* populate_from_reddit.py get_user_ids raises when USER_IDS is empty
GetUserIdsSingleRaises(e) == Len(e.USER_IDS) = 0

\* rows of the profiles table
ProfileIds == << "u2", "u3" >>

\* populate_from_multiple_subreddits.py get_user_ids raises when USER_IDS is
\* empty and the profiles query raises or returns no rows
GetUserIdsMultiRaises(e) == Len(e.USER_IDS) = 0 /\ e.profiles # "rows"

GetUserIdsMulti(e) == IF Len(e.USER_IDS) > 0 THEN e.USER_IDS ELSE ProfileIds

(***************************************************************************)
(* Inputs of the classifier harness.                                        *)
(***************************************************************************)
\* words and phrases the harness builds post texts from
Vocabulary == { "Love", "family", "money debt", "hello" }

\* the end-to-end scenario of the keyword classifier: title + " " + body
ExampleText ==
    "I need advice" \o " " \o
    "My relationship with my partner is falling apart and I don't know what to do."

RECURSIVE TextsOf(_)
TextsOf(n) ==
    IF n = 0 THEN {""}
    ELSE LET shorter == TextsOf(n - 1)
         IN  shorter \cup
             { IF t = "" THEN w ELSE t \o " " \o w : t \in shorter, w \in Vocabulary }

ClassifierTexts == TextsOf(MaxTextWords) \cup {ExampleText}

\* rows of the categories table the harness draws category lists from
CategoryPool ==
    { [id |-> "c1", name |-> "Love"], [id |-> "c2", name |-> "Family"],
      [id |-> "c3", name |-> "Vent"], [id |-> "c4", name |-> "Love Life"] }

\* the non-empty lists of at most n distinct rows
CategoryLists(n) ==
    UNION { { s \in [1..m -> CategoryPool] :
                \A a, b \in 1..m : a # b => s[a] # s[b] } : m \in 1..n }

\* texts of the "response" field of a status-200 reply to the classifier prompt
CategoryResponses == { "Love", " family\n", "Vent or maybe Love", "love life", "" }

OllamaReplies ==
    { [kind |-> "error", status |-> 0, response |-> ""],
      [kind |-> "timeout", status |-> 0, response |-> ""],
      [kind |-> "http", status |-> 500, response |-> ""] }
    \cup { [kind |-> "http", status |-> 200, response |-> r] : r \in CategoryResponses }

\* the replies of the model to the classifier prompt during a batch
BatchOllamaReplies ==
    { [kind |-> "timeout", status |-> 0, response |-> ""],
      [kind |-> "http", status |-> 200, response |-> " family\n"],
      [kind |-> "http", status |-> 200, response |-> "none"] }

\* the reply slot of a call that never reaches the model
NoReply == [kind |-> "none", status |-> 0, response |-> ""]

(***************************************************************************)
(* State.                                                                   *)
(***************************************************************************)
VARIABLES
    script,           \* "single": populate_from_reddit.py, "multi":
                      \* populate_from_multiple_subreddits.py
    env,              \* credentials, flags and tables the run starts from
    categories,       \* the rows of the categories table, in the order returned
    pc,               \* the position of main
    user_ids,         \* main's user_ids
    c,                \* fetch_from_all_categories: index of the category loop
    all_posts,        \* fetch_from_all_categories: the posts fetched so far
    posts,            \* main's posts
    i,                \* index of the post loop of main
    successful_saves, \* main's counter of saved letters
    skipped_posts,    \* main's counter of skipped posts (multi)
    calls,            \* collaborator calls and filter verdicts of the current
                      \* iteration, in order
    rewritten_content,\* main's rewritten_content in the current iteration
    mood_emoji,       \* main's mood_emoji in the current iteration
    display_name,     \* main's display_name in the current iteration
    letter,           \* the letter handed to save_letter in the current iteration
    visited,          \* the ids of the posts the loop has taken up, in order
    outcomes,         \* the outcome of each post taken up
    summary,          \* the counts printed at the end of the batch
    fetch_failed,     \* the sources whose listing raised during the fetch in
                      \* progress, as << category_name, subreddit >>
    post_content,     \* harness: the text handed to assign_category or to
                      \* contains_skip_keywords
    classified,       \* harness: the last call of assign_category and its result
    screened,         \* harness: the last call of contains_skip_keywords, its
                      \* result and the keyword it printed
    normalized,       \* harness: the last call of clean_content and its result
    tagged            \* harness: the last call of ollama_get_emoji, the draw of
                      \* random.choice and the result

\* the locals of one iteration of the post loop
locals == << rewritten_content, mood_emoji, display_name >>

pipeline_vars ==
    << script, env, pc, user_ids, c, all_posts, posts, i, successful_saves,
       skipped_posts, calls, locals, letter, visited, outcomes, summary,
       fetch_failed >>

vars == << pipeline_vars, categories, post_content, classified, screened,
          normalized, tagged >>

NoCall == [use_ollama |-> FALSE, reply |-> NoReply, rnd |-> 0, category_id |-> "",
           done |-> FALSE]

NoScreen == [done |-> FALSE, rejected |-> FALSE, reason |-> None]

NoNormal == [done |-> FALSE, output |-> None]

\* the mood_emoji of a letter that has none
NoEmoji == 0

NoTag == [done |-> FALSE, rnd |-> 0, mood_emoji |-> NoEmoji]

NoLetter == [title |-> None, content |-> None, category_id |-> None,
             author_id |-> None, mood_emoji |-> NoEmoji, display_name |-> None,
             handed |-> FALSE]

NoLocals ==
    /\ rewritten_content = None
    /\ mood_emoji = NoEmoji
    /\ display_name = None

NoSummary == [printed |-> FALSE, processed |-> 0, skipped |-> 0, saved |-> 0,
              failed |-> 0]

Event(stage, input) == [stage |-> stage, input |-> input]

\* the stages that call the model-assistance collaborator
ModelStages == { "classify", "rewrite", "expand", "emoji", "display_name" }

\* the environments a run of a script may start from
Envs(s) ==
    { e \in [reddit_creds : BOOLEAN, supabase_creds : BOOLEAN,
             OLLAMA_ENABLED : BOOLEAN, OLLAMA_REWRITE : BOOLEAN,
             USER_IDS : { << >>, << "u1" >> },
             profiles : { "rows", "no_rows", "error" }] :
        /\ (s = "single" => e.profiles = "rows")
        /\ (s = "multi" => ~e.OLLAMA_ENABLED /\ ~e.OLLAMA_REWRITE)
        /\ (Len(e.USER_IDS) > 0 => e.profiles = "rows") }

\* the categories tables a run may find
CategoryTables ==
    { << >>,
      << [id |-> "c3", name |-> "Vent"], [id |-> "c5", name |-> "Confess"] >>,
      << [id |-> "c1", name |-> "Love"], [id |-> "c2", name |-> "Family"] >> }

IdleEnv ==
    [reddit_creds |-> FALSE, supabase_creds |-> FALSE, OLLAMA_ENABLED |-> FALSE,
     OLLAMA_REWRITE |-> FALSE, USER_IDS |-> << >>, profiles |-> "rows"]

PipelineIdle ==
    /\ script = "none"
    /\ env = IdleEnv
    /\ pc = "harness"
    /\ user_ids = << >>
    /\ c = 0
    /\ all_posts = << >>
    /\ posts = << >>
    /\ i = 0
    /\ successful_saves = 0
    /\ skipped_posts = 0
    /\ calls = << >>
    /\ NoLocals
    /\ letter = NoLetter
    /\ visited = << >>
    /\ outcomes = << >>
    /\ summary = NoSummary
    /\ fetch_failed = {}

(***************************************************************************)
(* Classifier harness: every text and category list, every strategy, model  *)
(* reply and random draw.                                                   *)
(***************************************************************************)
ClassifierInit ==
    /\ categories \in CategoryLists(MaxCats)
    /\ post_content \in ClassifierTexts
    /\ classified = NoCall
    /\ screened = NoScreen
    /\ normalized = NoNormal
    /\ tagged = NoTag
    /\ PipelineIdle

\* assign_category with OLLAMA_ENABLED unset or false
ClassifyKeyword ==
    \E rnd \in 1..Len(categories) :
        /\ pc = "harness"
        /\ ~classified.done
        /\ classified' = [use_ollama |-> FALSE, reply |-> NoReply, rnd |-> rnd,
                          category_id |->
                              AssignCategory(post_content, categories, FALSE, NoReply, rnd),
                          done |-> TRUE]
        /\ UNCHANGED << pipeline_vars, categories, post_content, screened,
                       normalized, tagged >>

\* assign_category with OLLAMA_ENABLED=true
ClassifyOllama ==
    \E rnd \in 1..Len(categories), reply \in OllamaReplies :
        /\ pc = "harness"
        /\ ~classified.done
        /\ classified' = [use_ollama |-> TRUE, reply |-> reply, rnd |-> rnd,
                          category_id |->
                              AssignCategory(post_content, categories, TRUE, reply, rnd),
                          done |-> TRUE]
        /\ UNCHANGED << pipeline_vars, categories, post_content, screened,
                       normalized, tagged >>

ClassifierNext == ClassifyKeyword \/ ClassifyOllama

ClassifierSpec == ClassifierInit /\ [][ClassifierNext]_vars

(***************************************************************************)
(* Safety-filter harness: contains_skip_keywords on every text built from   *)
(* FilterWords.                                                             *)
(***************************************************************************)
\* words the harness builds texts from: disallowed phrases in several letter
\* cases, one inside a longer word, and a harmless word
FilterWords ==
    { "Suicide", "ABUSE", "assault", "Kill Myself", "rapeseed", "TERRORISM",
      "hello" }

RECURSIVE FilterTextsOf(_)
FilterTextsOf(n) ==
    IF n = 0 THEN {""}
    ELSE LET shorter == FilterTextsOf(n - 1)
         IN  shorter \cup
             { IF t = "" THEN w ELSE t \o " " \o w : t \in shorter, w \in FilterWords }

FilterInit ==
    /\ categories = << >>
    /\ post_content \in FilterTextsOf(MaxFilterWords)
    /\ classified = NoCall
    /\ screened = NoScreen
    /\ normalized = NoNormal
    /\ tagged = NoTag
    /\ PipelineIdle

\* contains_skip_keywords(text): the result and the keyword printed
ScreenText ==
    /\ pc = "harness"
    /\ ~screened.done
    /\ screened' = [done |-> TRUE,
                    rejected |-> ContainsSkipKeywords(post_content),
                    reason |-> SkipKeywordPrinted(post_content)]
    /\ UNCHANGED << pipeline_vars, categories, post_content, classified,
                    normalized, tagged >>

FilterNext == ScreenText

FilterSpec == FilterInit /\ [][FilterNext]_vars

(***************************************************************************)
(* Normalizer harness: clean_content on every body built from BodyParts.    *)
(***************************************************************************)
\* pieces the harness builds raw bodies from: a URL, a markup link whose label
\* and tail join into a URL, an edit marker inside the scheme of a URL, a
\* markup link to a URL, an update marker, a run of newlines, an upper-case
\* URL and plain text
BodyParts ==
    { "see http://a.io/x now ", "[http](b)://c.io ", "htEdit 2:tp://d.io ",
      "[link](https://e.io) ", "Update: ", "\n\n\n", "HTTPS://F.IO ",
      "plain text " }

RECURSIVE BodiesOf(_)
BodiesOf(n) ==
    IF n = 0 THEN {""}
    ELSE LET shorter == BodiesOf(n - 1)
         IN  shorter \cup { t \o w : t \in shorter, w \in BodyParts }

NormalizerInit ==
    /\ categories = << >>
    /\ post_content \in BodiesOf(MaxBodyParts)
    /\ classified = NoCall
    /\ screened = NoScreen
    /\ normalized = NoNormal
    /\ tagged = NoTag
    /\ PipelineIdle

\* clean_content(content)
NormalizeBody ==
    /\ pc = "harness"
    /\ ~normalized.done
    /\ normalized' = [done |-> TRUE, output |-> CleanContent(post_content)]
    /\ UNCHANGED << pipeline_vars, categories, post_content, classified,
                    screened, tagged >>

NormalizerNext == NormalizeBody

NormalizerSpec == NormalizerInit /\ [][NormalizerNext]_vars

(***************************************************************************)
(* Mood-tag harness: ollama_get_emoji for every state of the model          *)
(* collaborator, every reply and every draw of random.choice.               *)
(***************************************************************************)
\* the indices random.choice(ALLOWED_EMOJIS) may draw
EmojiChoices == 1..Len(ALLOWED_EMOJIS)

EmojiInit ==
    /\ categories = << >>
    /\ post_content = ""
    /\ classified = NoCall
    /\ screened = NoScreen
    /\ normalized = NoNormal
    /\ tagged = NoTag
    /\ PipelineIdle

\* ollama_get_emoji(text)
TagMood ==
    \E running \in BOOLEAN, reply \in EmojiChatReplies, rnd \in EmojiChoices :
        /\ pc = "harness"
        /\ ~tagged.done
        /\ tagged' = [done |-> TRUE, running |-> running, reply |-> reply,
                      rnd |-> rnd,
                      mood_emoji |-> OllamaGetEmoji(running, reply, rnd)]
        /\ UNCHANGED << pipeline_vars, categories, post_content, classified,
                        screened, normalized >>

EmojiNext == TagMood

EmojiSpec == EmojiInit /\ [][EmojiNext]_vars

(***************************************************************************)
(* The batch: main of both scripts.                                         *)
(***************************************************************************)
Init ==
    /\ script \in { "single", "multi" }
    /\ env \in Envs(script)
    /\ categories \in CategoryTables
    /\ pc = "start"
    /\ user_ids = << >>
    /\ c = 0
    /\ all_posts = << >>
    /\ posts = << >>
    /\ i = 0
    /\ successful_saves = 0
    /\ skipped_posts = 0
    /\ calls = << >>
    /\ NoLocals
    /\ letter = NoLetter
    /\ visited = << >>
    /\ outcomes = << >>
    /\ summary = NoSummary
    /\ fetch_failed = {}
    /\ post_content = ""
    /\ classified = NoCall
    /\ screened = NoScreen
    /\ normalized = NoNormal
    /\ tagged = NoTag

\* main up to the fetch: clients, categories, user ids and the checks on them.
\* An exception reaches the outer except of main ("aborted"); the multi script
\* returns ("exit") on an empty categories table.
Setup ==
    /\ pc = "start"
    /\ IF SetupRaises(env) THEN pc' = "aborted" /\ UNCHANGED << user_ids, c >>
       ELSE IF script = "single"
       THEN IF GetCategoriesSingleRaises(categories) \/ GetUserIdsSingleRaises(env)
            THEN pc' = "aborted" /\ UNCHANGED << user_ids, c >>
            ELSE pc' = "fetch" /\ user_ids' = env.USER_IDS /\ UNCHANGED c
       ELSE IF GetUserIdsMultiRaises(env)
            THEN pc' = "aborted" /\ UNCHANGED << user_ids, c >>
            ELSE IF Len(categories) = 0 \/ Len(GetUserIdsMulti(env)) = 0
            THEN pc' = "exit" /\ user_ids' = GetUserIdsMulti(env) /\ UNCHANGED c
            ELSE pc' = "fetch" /\ user_ids' = GetUserIdsMulti(env) /\ c' = 1
    /\ UNCHANGED << script, env, categories, all_posts, posts, i, successful_saves,
                    skipped_posts, calls, locals, letter,
                    visited, outcomes, summary,
                    fetch_failed,
                    post_content, classified, screened,
                    normalized, tagged >>

\* populate_from_reddit.py main: fetch_posts(reddit, SUBREDDIT, LIMIT, ...); an
\* error of the source reaches the outer except
FetchSingle ==
    /\ pc = "fetch" /\ script = "single"
    /\ \E raised \in BOOLEAN :
         IF raised
         THEN /\ pc' = "aborted"
              /\ fetch_failed' = { << None, "offmychest" >> }
              /\ UNCHANGED posts
         ELSE /\ posts' = FetchPostsSingle("offmychest", LIMIT)
              /\ pc' = IF Len(posts') = 0 THEN "exit" ELSE "loop"
              /\ UNCHANGED fetch_failed
    /\ UNCHANGED << script, env, categories, user_ids, c, all_posts, i,
                    successful_saves, skipped_posts, calls, locals, letter,
                    visited,
                    outcomes, summary, post_content, classified, screened,
                    normalized, tagged >>

\* fetch_from_all_categories: one iteration of `for category in categories`
FetchCategory ==
    /\ pc = "fetch" /\ script = "multi"
    /\ c <= Len(categories)
    /\ LET category_name == categories[c].name
       IN  IF category_name \in SubredditCategoryNames
           THEN \E selected_subreddits \in Samples(SUBREDDIT_CATEGORIES(category_name)) :
                \E fails \in FailureChoices(Len(selected_subreddits)) :
                    LET limit_per_sub ==
                            (DEFAULT_POSTS_PER_SUBREDDIT \div Len(selected_subreddits)) + 1
                    IN  /\ all_posts' = all_posts \o
                               FetchSelected(selected_subreddits, limit_per_sub,
                                             category_name, fails)
                        /\ fetch_failed' = fetch_failed \cup
                               { << category_name, selected_subreddits[j] >> :
                                   j \in { k \in 1..Len(fails) : fails[k] # 0 } }
           ELSE UNCHANGED << all_posts, fetch_failed >>
    /\ c' = c + 1
    /\ UNCHANGED << script, env, categories, pc, user_ids, posts, i,
                    successful_saves, skipped_posts, calls, locals, letter,
                    visited,
                    outcomes, summary, post_content, classified, screened,
                    normalized, tagged >>

\* the end of fetch_from_all_categories (deduplication) and main's check of
\* its result
FetchReturn ==
    /\ pc = "fetch" /\ script = "multi"
    /\ c > Len(categories)
    /\ posts' = Deduplicate(all_posts)
    /\ pc' = IF Len(posts') = 0 THEN "exit" ELSE "loop"
    /\ fetch_failed' = {}
    /\ UNCHANGED << script, env, categories, user_ids, c, all_posts, i,
                    successful_saves, skipped_posts, calls, locals, letter,
                    visited,
                    outcomes, summary, post_content, classified, screened,
                    normalized, tagged >>

\* `for i, post in enumerate(posts, 1)`: the next post, or the end of the loop
LoopNext ==
    /\ pc = "loop"
    /\ IF i < Len(posts)
       THEN /\ i' = i + 1
            /\ pc' = "body"
            /\ visited' = Append(visited, posts[i + 1].id)
       ELSE /\ pc' = "report"
            /\ UNCHANGED << i, visited >>
    /\ calls' = << >>
    /\ rewritten_content' = None
    /\ mood_emoji' = NoEmoji
    /\ display_name' = None
    /\ letter' = NoLetter
    /\ UNCHANGED << script, env, categories, user_ids, c, all_posts, posts,
                    successful_saves, skipped_posts, outcomes, summary,
                    fetch_failed,
                    post_content, classified, screened,
                    normalized, tagged >>

\* mutant: the letter carries the category hint itself instead of the id
CategoryNameToId_Name(cats, name) == name

\* category_name_to_id[name] of {cat['name']: cat['id'] for cat in categories}:
\* the id of the last row of that name
CategoryNameToId(cats, name) ==
    LET named == { k \in 1..Len(cats) : cats[k].name = name }
    IN  cats[CHOOSE k \in named : \A j \in named : j <= k].id

HasCategoryName(cats, name) == \E k \in 1..Len(cats) : cats[k].name = name

\* mutant: an exception of one post reaches the outer except of main
AfterIteration_Propagate(raised) == IF raised THEN "aborted" ELSE "loop"

\* where main goes after one iteration of the post loop: the try/except around
\* the body swallows what the body raises
AfterIteration(raised) == "loop"

\* the transform stage of the multi script: expansion of a post of fewer than
\* 20 words, ollama_rewrite_post otherwise
TransformOutcomes(original_text) ==
    LET short == WordCount(original_text) < ShortPostWords
    IN  { [content |-> IF short THEN ExpandShortPost(original_text, running, reply)
                       ELSE OllamaRewritePost(original_text, running, reply),
           called |-> running,
           stage |-> IF short THEN "expand" ELSE "rewrite",
           outcome |-> IF ~running THEN "unreachable"
                       ELSE IF reply.kind = "ok" THEN "ok" ELSE "exception"] :
            running \in BOOLEAN, reply \in RewriteChatReplies }

EmojiOutcomes ==
    { [mood_emoji |-> OllamaGetEmoji(running, reply, rnd), called |-> running] :
        running \in BOOLEAN, reply \in EmojiChatReplies, rnd \in EmojiDraws }

NameOutcomes ==
    { [display_name |-> OllamaGetDisplayName(running, reply), called |-> running] :
        running \in BOOLEAN, reply \in NameChatReplies }

CallIf(called, stage, input) == IF called THEN << Event(stage, input) >> ELSE << >>

\* one iteration of the post loop of populate_from_multiple_subreddits.py
ProcessPostMulti ==
    /\ pc = "body" /\ script = "multi"
    /\ LET post == posts[i]
           original_title == post.title
           original_text == post.content
           category_name == post.category_name
           combined_text == original_title \o " " \o original_text
       IN  IF ContainsSkipKeywords(combined_text) \/ MentionsReddit(combined_text)
           THEN /\ calls' = << Event("safety_reject", combined_text) >>
                /\ skipped_posts' = skipped_posts + 1
                /\ outcomes' = Append(outcomes, "skipped")
                /\ pc' = "loop"
                /\ UNCHANGED << locals, letter, successful_saves >>
           ELSE IF category_name = None \/ ~HasCategoryName(categories, category_name)
           THEN /\ calls' = << Event("safety_accept", combined_text) >>
                /\ skipped_posts' = skipped_posts + 1
                /\ outcomes' = Append(outcomes, "skipped")
                /\ pc' = "loop"
                /\ UNCHANGED << locals, letter, successful_saves >>
           ELSE \E tr \in TransformOutcomes(original_text) :
                /\ rewritten_content' = tr.content
                /\ \E em \in EmojiOutcomes :
                   /\ mood_emoji' = em.mood_emoji
                   /\ \E dn \in NameOutcomes :
                      /\ display_name' = dn.display_name
                      /\ \E a \in 1..Len(user_ids), insert_reply \in InsertReplies :
                           LET saved == SaveLetter(insert_reply)
                           IN  /\ letter' =
                                      [title |-> original_title,
                                       content |-> rewritten_content',
                                       category_id |->
                                           CategoryNameToId(categories, category_name),
                                       author_id |-> user_ids[a],
                                       mood_emoji |-> mood_emoji',
                                       display_name |-> display_name',
                                       handed |-> TRUE]
                               /\ calls' =
                                      << Event("safety_accept", combined_text) >>
                                      \o CallIf(tr.called, tr.stage, original_text)
                                      \o << Event("transform_result", tr.outcome) >>
                                      \o CallIf(em.called, "emoji", rewritten_content')
                                      \o CallIf(dn.called, "display_name",
                                                rewritten_content')
                                      \o << Event("insert", insert_reply) >>
                                      \o PacingDelay(saved, SleepMulti)
                               /\ successful_saves' =
                                      IF saved THEN successful_saves + 1
                                      ELSE successful_saves
                               /\ outcomes' =
                                      Append(outcomes, IF saved THEN "saved" ELSE "failed")
                               /\ pc' = AfterIteration(FALSE)
                               /\ UNCHANGED skipped_posts
    /\ UNCHANGED << script, env, categories, user_ids, c, all_posts, posts, i,
                    visited, summary, fetch_failed,
                    post_content, classified, screened,
                    normalized, tagged >>

\* how a call of rewrite_post_with_ollama went: the exception of requests.post,
\* "status" for a status other than 200, else what the parse made of the text
RewriteOutcomeOf(reply) ==
    IF reply.kind # "http" THEN reply.kind
    ELSE IF reply.status # 200 THEN "status"
    ELSE reply.parsed

\* the rewrite stage of populate_from_reddit.py, run when OLLAMA_REWRITE is set
RewriteOutcomesSingle(title, cleaned_content, enabled) ==
    IF enabled
    THEN { RewritePostWithOllama(title, cleaned_content, reply)
               @@ [called |-> TRUE, outcome |-> RewriteOutcomeOf(reply)] :
             reply \in RewriteReplies }
    ELSE { [title |-> title, content |-> cleaned_content, is_str |-> TRUE,
            exits |-> FALSE, called |-> FALSE, outcome |-> "off"] }

\* mutant: the category assigned from the title and content the post had
\* before the rewrite
ClassifierInput_Original(post_title, cleaned_content, rw) ==
    post_title \o " " \o cleaned_content

\* the text create_letter_from_post hands to assign_category: title and
\* cleaned_content as they are after the rewrite stage reassigned them
ClassifierInput(post_title, cleaned_content, rw) == rw.title \o " " \o rw.content

\* assign_category on a non-empty category list: the ids it may return
ClassifyOutcomes(text, cats, use_ollama) ==
    { AssignCategory(text, cats, use_ollama, reply, rnd) :
        reply \in (IF use_ollama THEN BatchOllamaReplies ELSE { NoReply }),
        rnd \in 1..Len(cats) }

\* one iteration of the post loop of populate_from_reddit.py:
\* create_letter_from_post, save_letter, sleep
ProcessPostSingle ==
    /\ pc = "body" /\ script = "single"
    /\ LET post == posts[i]
       IN  \E cleaned_content \in {CleanContent(post.content)} :
           \E rw \in RewriteOutcomesSingle(post.title, cleaned_content, env.OLLAMA_REWRITE) :
             LET text == ClassifierInput(post.title, cleaned_content, rw)
                 rewrite_call == CallIf(rw.called, "rewrite",
                                        post.title \o " " \o cleaned_content)
                                 \o CallIf(rw.called, "transform_result", rw.outcome)
             IN  /\ rewritten_content' = rw.content
                 /\ UNCHANGED mood_emoji
                 /\ \E name \in (IF rw.exits THEN { display_name } ELSE FakeUserNames) :
                    /\ display_name' = name
                    /\ IF rw.exits
                       THEN \* SystemExit passes every `except Exception` of main
                            /\ calls' = rewrite_call
                            /\ pc' = "killed"
                            /\ UNCHANGED << letter, successful_saves, outcomes >>
                       ELSE IF ~rw.is_str
                       THEN \* title + " " + cleaned_content raises TypeError
                            /\ calls' = rewrite_call
                            /\ outcomes' = Append(outcomes, "failed")
                            /\ pc' = AfterIteration(TRUE)
                            /\ UNCHANGED << letter, successful_saves >>
                       ELSE IF Len(categories) = 0
                       THEN \* random.choice([]) and categories[0] raise IndexError
                            /\ calls' = rewrite_call
                                        \o CallIf(env.OLLAMA_ENABLED, "classify", text)
                            /\ outcomes' = Append(outcomes, "failed")
                            /\ pc' = AfterIteration(TRUE)
                            /\ UNCHANGED << letter, successful_saves >>
                       ELSE \E category_id \in
                                  ClassifyOutcomes(text, categories, env.OLLAMA_ENABLED),
                               a \in 1..Len(user_ids), insert_reply \in InsertReplies :
                              LET saved == SaveLetter(insert_reply)
                              IN  /\ letter' = [title |-> rw.title,
                                                content |-> rw.content,
                                                category_id |-> category_id,
                                                author_id |-> user_ids[a],
                                                mood_emoji |-> NoEmoji,
                                                display_name |-> name,
                                                handed |-> TRUE]
                                  /\ calls' = rewrite_call
                                              \o CallIf(env.OLLAMA_ENABLED, "classify", text)
                                              \o << Event("insert", insert_reply) >>
                                              \o PacingDelay(saved, SleepSingle)
                                  /\ successful_saves' =
                                         IF saved THEN successful_saves + 1
                                         ELSE successful_saves
                                  /\ outcomes' = Append(outcomes,
                                                        IF saved THEN "saved" ELSE "failed")
                                  /\ pc' = AfterIteration(FALSE)
    /\ UNCHANGED << script, env, categories, user_ids, c, all_posts, posts, i,
                    skipped_posts, visited, summary, fetch_failed,
                    post_content, classified, screened,
                    normalized, tagged >>

\* mutant: the failed count taken without the skipped posts
Report_FailedIgnoresSkipped ==
    /\ pc = "report"
    /\ summary' = [printed |-> TRUE,
                   processed |-> Len(posts),
                   skipped |-> skipped_posts,
                   saved |-> successful_saves,
                   failed |-> Len(posts) - successful_saves]
    /\ pc' = "done"
    /\ UNCHANGED << script, env, categories, user_ids, c, all_posts, posts, i,
                    successful_saves, skipped_posts, calls, locals, letter,
                    visited, outcomes, fetch_failed,
                    post_content, classified, screened, normalized, tagged >>

\* the summary printed after the loop
Report ==
    /\ pc = "report"
    /\ summary' = [printed |-> TRUE,
                   processed |-> Len(posts),
                   skipped |-> skipped_posts,
                   saved |-> successful_saves,
                   failed |-> Len(posts) - successful_saves - skipped_posts]
    /\ pc' = "done"
    /\ UNCHANGED << script, env, categories, user_ids, c, all_posts, posts, i,
                    successful_saves, skipped_posts, calls, locals, letter,
                    visited,
                    outcomes, fetch_failed,
                    post_content, classified, screened,
                    normalized, tagged >>

Next ==
    \/ Setup
    \/ FetchSingle
    \/ FetchCategory
    \/ FetchReturn
    \/ LoopNext
    \/ ProcessPostMulti
    \/ ProcessPostSingle
    \/ Report

Spec == Init /\ [][Next]_vars

\* main runs to its end: every step that can be taken is eventually taken
FairSpec == Spec /\ WF_vars(Next)

(***************************************************************************)
(* Properties of the batch (checked under Spec).                            *)
(***************************************************************************)
\* the ids of the rows of the categories table fetched by the run
CategoryIds == { categories[k].id : k \in 1..Len(categories) }

\* the stages of the calls made so far for the current post
ModelCalls == { k \in 1..Len(calls) : calls[k].stage \in ModelStages }

\* C1: every letter handed to save_letter carries a category_id that is not
\* null and is the id of a row of the categories table fetched by the same run.
C1_LetterCategoryResolved ==
    letter.handed =>
        letter.category_id # None /\ letter.category_id \in CategoryIds

\* a letter built by the multi script from a post that carries a category hint
C1_Witness ==
    /\ script = "multi"
    /\ letter.handed
    /\ posts[i].category_name # None
    /\ letter.category_id \in CategoryIds

\* C2 as stated: every call to the model for a post comes after the safety
\* filter has accepted that post's title and body, and a post the filter
\* rejects has no model call at all.
C2_SafetyBeforeModelCalls ==
    /\ \A k \in ModelCalls :
           \E j \in 1..(k - 1) : calls[j].stage = "safety_accept"
    /\ (\E j \in 1..Len(calls) : calls[j].stage = "safety_reject")
           => ModelCalls = {}

\* C3: the post loop takes up no id twice, and once it has ended it has taken
\* up every id that was fetched.
C3_EachIdVisitedOnce ==
    /\ \A a, b \in 1..Len(visited) : a # b => visited[a] # visited[b]
    /\ (script = "multi" /\ pc \in { "report", "done" })
           => { visited[k] : k \in 1..Len(visited) }
                  = { all_posts[k].id : k \in 1..Len(all_posts) }

\* a finished run of the multi script that fetched the same id from two buckets
C3_Witness ==
    /\ script = "multi"
    /\ pc = "done"
    /\ \E a, b \in 1..Len(all_posts) : a # b /\ all_posts[a].id = all_posts[b].id
    /\ Len(visited) >= 2

\* the records fetched under an id, by their index in fetch order
OccurrencesOf(id) == { k \in 1..Len(all_posts) : all_posts[k].id = id }

FirstOccurrence(id) == all_posts[Least(OccurrencesOf(id))]

LastOccurrence(id) ==
    all_posts[CHOOSE k \in OccurrencesOf(id) : \A j \in OccurrencesOf(id) : j <= k]

Deduplicated == script = "multi" /\ pc \in { "loop", "body", "report", "done" }

\* C4 as stated: the record processed for an id is the one of the first bucket,
\* in fetch order, in which the id appeared.
C4_KeepsFirstOccurrence ==
    Deduplicated => \A k \in 1..Len(posts) : posts[k] = FirstOccurrence(posts[k].id)

\* C4 (amended): the record processed for an id, its category_name included, is
\* the one of the last bucket in fetch order in which the id appeared; the ids
\* are processed in the order of their first appearance.
C4_KeepsLastRecordInFirstOrder ==
    Deduplicated =>
        /\ \A k \in 1..Len(posts) : posts[k] = LastOccurrence(posts[k].id)
        /\ \A a, b \in 1..Len(posts) :
               a < b => Least(OccurrencesOf(posts[a].id))
                            < Least(OccurrencesOf(posts[b].id))

\* the loop is processing a post fetched under two categories, with the
\* category_name of the later one
C4_Witness ==
    /\ script = "multi"
    /\ pc = "body"
    /\ posts[i].category_name # FirstOccurrence(posts[i].id).category_name
    /\ posts[i] = LastOccurrence(posts[i].id)

\* C5 as a temporal property (under FairSpec): once the post loop has begun,
\* the batch goes on whatever the outcome of a post: every post of the
\* deduplicated sequence is taken up in order and gets an outcome, and the batch
\* ends by printing the counts.  C5_NoPostEndsBatch below states the same of
\* the runs that have ended.
C5_BatchRunsToReport ==
    (pc = "body") ~>
        ( /\ pc = "done"
          /\ summary.printed
          /\ visited = [k \in 1..Len(posts) |-> posts[k].id]
          /\ Len(outcomes) = Len(posts)
          /\ summary.processed = Len(posts) )

\* a finished batch whose first post failed and whose later posts were still
\* taken up
C5_Witness ==
    /\ pc = "done"
    /\ summary.printed
    /\ Len(outcomes) >= 2
    /\ outcomes[1] = "failed"
    /\ Len(visited) = Len(posts)

\* a precondition of the run fails: credentials missing, no categories, no
\* user ids
PreconditionFails ==
    \/ ~env.reddit_creds
    \/ ~env.supabase_creds
    \/ Len(categories) = 0
    \/ (script = "single" /\ Len(env.USER_IDS) = 0)
    \/ (script = "multi" /\ Len(env.USER_IDS) = 0 /\ env.profiles # "rows")

\* C6: when a precondition fails, the run ends before the post loop: no post
\* is taken up, no model call is made and no letter is handed to save_letter.
C6_PreconditionFailureProcessesNothing ==
    PreconditionFails =>
        /\ pc \in { "start", "aborted", "exit" }
        /\ visited = << >>
        /\ outcomes = << >>
        /\ calls = << >>
        /\ ~letter.handed

\* a run of populate_from_reddit.py, credentials and user ids in place, ended
\* on an empty categories table
C6_Witness ==
    /\ script = "single"
    /\ env.reddit_creds /\ env.supabase_creds
    /\ Len(env.USER_IDS) > 0
    /\ Len(categories) = 0
    /\ pc = "aborted"

(***************************************************************************)
(* Properties of the classifier (checked under ClassifierSpec).             *)
(***************************************************************************)
\* the ids of the supplied categories
SuppliedIds == { categories[k].id : k \in 1..Len(categories) }

\* the count of a mapping name in the scores of assign_category_keyword, 0 for
\* a name the mapping does not have
ScoreIn(matches, name) ==
    IF \E n \in DOMAIN matches : CategoryKeywordNames[n] = name
    THEN matches[CHOOSE n \in DOMAIN matches : CategoryKeywordNames[n] = name]
    ELSE 0

\* the best count of the scores
TopOf(matches) ==
    CHOOSE v \in { matches[n] : n \in DOMAIN matches } :
        \A n \in DOMAIN matches : matches[n] <= v

\* the keyword count of a mapping name in the harness text
ScoreOfName(name) == ScoreIn(Matches(post_content), name)

\* the best keyword count over the whole keyword mapping
TopScore == TopOf(Matches(post_content))

KeywordCall == classified.done /\ ~classified.use_ollama

\* C7: when the model call of the model-assisted classifier fails (transport
\* error, timeout or non-success status), the id it returns is the id the
\* keyword strategy returns for the same text, category list and random draw.
C7_FailedModelEqualsKeyword ==
    (classified.done /\ classified.use_ollama /\ ReplyFailed(classified.reply))
        => classified.category_id =
               AssignCategoryKeyword(post_content, categories, classified.rnd)

\* a timed-out model call on a text with a positive keyword score, resolved to a
\* category other than the first of the list
C7_Witness ==
    /\ classified.done /\ classified.use_ollama
    /\ classified.reply.kind = "timeout"
    /\ TopScore > 0
    /\ classified.category_id # categories[1].id

\* C8: under either strategy and any model reply, classification returns the id
\* of a category of the supplied list, never null.
C8_ResultIsSuppliedId ==
    classified.done => classified.category_id \in SuppliedIds

\* a text with no indicator keyword, classified by the keyword strategy through
\* the random pick of the second category
C8_Witness ==
    /\ KeywordCall
    /\ TopScore = 0
    /\ classified.rnd = 2
    /\ classified.category_id = categories[2].id

\* C9 as stated: a supplied category that has a matching keyword and a higher
\* keyword count than every other supplied category is the one returned.
C9_HighestSuppliedWins ==
    KeywordCall =>
        \A k \in 1..Len(categories) :
            ( /\ ScoreOfName(categories[k].name) >= 1
              /\ \A j \in 1..Len(categories) :
                     j # k => ScoreOfName(categories[j].name)
                                  < ScoreOfName(categories[k].name) )
            => classified.category_id = categories[k].id

\* C9 (amended): a supplied category whose name has a matching keyword and a
\* strictly higher count than every other name of the fixed keyword mapping is
\* returned, whatever the random draw; the scenario text with the single
\* category Love (c1) resolves to c1.
C9_StrictlyHighestWins ==
    KeywordCall =>
        /\ \A matches \in {Matches(post_content)} :
           \A k \in 1..Len(categories) :
               ( /\ ScoreIn(matches, categories[k].name) >= 1
                 /\ \A n \in 1..Len(CategoryKeywordNames) :
                        CategoryKeywordNames[n] # categories[k].name
                            => matches[n] < ScoreIn(matches, categories[k].name) )
               => /\ classified.category_id = categories[k].id
                  /\ \A r \in 1..Len(categories) :
                         AssignCategoryKeyword(post_content, categories, r)
                             = categories[k].id
        /\ ( /\ post_content = ExampleText
             /\ categories = << [id |-> "c1", name |-> "Love"] >> )
           => classified.category_id = "c1"

\* the keyword strategy on a text where the second supplied category strictly
\* outscores every other mapping name, with the random draw pointing elsewhere
C9_Witness ==
    /\ KeywordCall
    /\ Len(categories) >= 2
    /\ ScoreOfName(categories[2].name) = TopScore
    /\ \A n \in 1..Len(CategoryKeywordNames) :
           CategoryKeywordNames[n] # categories[2].name
               => ScoreOfName(CategoryKeywordNames[n]) < TopScore
    /\ classified.rnd = 1
    /\ classified.category_id = categories[2].id

\* C10 as stated: when two or more supplied categories share the highest
\* positive score, the one that comes first in the supplied list is returned.
C10_FirstSuppliedWinsTie ==
    KeywordCall =>
        LET tied == { k \in 1..Len(categories) :
                          ScoreOfName(categories[k].name) = TopScore }
        IN  (TopScore > 0 /\ Cardinality(tied) >= 2)
                => \E k \in tied : /\ \A j \in tied : k <= j
                                   /\ classified.category_id = categories[k].id

\* C10 (amended): the names of the fixed keyword mapping are the ones scored;
\* when the best score is positive, the first name in the mapping's order that
\* reaches it is selected, and the result is the supplied category of that name,
\* or the first supplied category when no supplied category has that name.
C10_TieBreakByMappingOrder ==
    KeywordCall =>
        \A matches \in {Matches(post_content)} :
            TopOf(matches) > 0 =>
                LET winners == { n \in 1..Len(CategoryKeywordNames) :
                                     matches[n] = TopOf(matches) }
                    first == CHOOSE n \in winners : \A m \in winners : n <= m
                    named == { k \in 1..Len(categories) :
                                   categories[k].name = CategoryKeywordNames[first] }
                IN  IF named # {}
                    THEN \E k \in named : classified.category_id = categories[k].id
                    ELSE classified.category_id = categories[1].id

\* a tie at the top between two supplied categories, listed in the opposite
\* order of the keyword mapping: the later one of the supplied list is returned
C10_Witness ==
    /\ KeywordCall
    /\ Len(categories) >= 2
    /\ categories[1].name = "Family" /\ categories[2].name = "Love"
    /\ ScoreOfName("Love") = TopScore /\ ScoreOfName("Family") = TopScore
    /\ TopScore > 0
    /\ classified.category_id = categories[2].id

(***************************************************************************)
(* Further properties of the classifier (checked under ClassifierSpec).     *)
(***************************************************************************)
\* the supplied categories whose name equals the trimmed response, letter case
\* ignored
ExactMatches(resp) ==
    { k \in 1..Len(categories) : Lower(categories[k].name) = resp }

\* the supplied categories whose name is contained in the trimmed response,
\* letter case ignored
PartialMatches(resp) ==
    { k \in 1..Len(categories) : Contains(Lower(categories[k].name), resp) }

ModelAnswered ==
    /\ classified.done /\ classified.use_ollama
    /\ classified.reply.kind = "http" /\ classified.reply.status = 200

\* C11: on a successful model call the first category whose name equals the
\* trimmed response (letter case ignored) is returned, even when an earlier
\* category's name is contained in the response; failing that, the first
\* category whose name is contained in the response; failing that, the result of
\* the keyword strategy.
C11_ExactThenPartialThenKeyword ==
    ModelAnswered =>
        \A resp \in {Lower(Strip(classified.reply.response))} :
            IF ExactMatches(resp) # {}
            THEN classified.category_id = categories[Least(ExactMatches(resp))].id
            ELSE IF PartialMatches(resp) # {}
            THEN classified.category_id = categories[Least(PartialMatches(resp))].id
            ELSE classified.category_id =
                     AssignCategoryKeyword(post_content, categories, classified.rnd)

\* the response names the second category exactly while the first category's
\* name is contained in it: the second is returned
C11_Witness ==
    /\ ModelAnswered
    /\ Len(categories) >= 2
    /\ \E resp \in {Lower(Strip(classified.reply.response))} :
           /\ 2 \in ExactMatches(resp)
           /\ 1 \in PartialMatches(resp)
           /\ 1 \notin ExactMatches(resp)
    /\ classified.category_id = categories[2].id

(***************************************************************************)
(* Further properties of the batch (checked under Spec).                    *)
(***************************************************************************)
\* main has ended
Ended == pc \in { "done", "exit", "aborted", "killed" }

\* C5 as a property of the runs that have ended: once the post loop has taken up
\* a post, the run ends only by the report, with every post of the deduplicated
\* sequence taken up in order and given an outcome, whatever happened to a post.
C5_NoPostEndsBatch ==
    (Ended /\ Len(visited) > 0) =>
        /\ pc = "done"
        /\ summary.printed
        /\ visited = [k \in 1..Len(posts) |-> posts[k].id]
        /\ Len(outcomes) = Len(posts)
        /\ summary.processed = Len(posts)

\* the members of ALLOWED_EMOJIS
AllowedEmojiSet == { ALLOWED_EMOJIS[k] : k \in 1..Len(ALLOWED_EMOJIS) }

\* the results the call log of the current post holds for a stage
ResultsOf(stage) == { calls[k].input : k \in { j \in 1..Len(calls) : calls[j].stage = stage } }

\* C12: the mood tag ollama_get_emoji returns is a member of ALLOWED_EMOJIS on
\* every path: any model response, model unavailable, model call raising.
C12_MoodTagAllowed ==
    (script = "multi" /\ letter.handed) =>
        /\ mood_emoji \in AllowedEmojiSet
        /\ letter.mood_emoji = mood_emoji

\* the model was called for the mood tag and the letter carries the last emoji
\* of the list, which only the random pick of the fallback paths yields
C12_Witness ==
    /\ script = "multi" /\ letter.handed
    /\ \E k \in 1..Len(calls) : calls[k].stage = "emoji"
    /\ letter.mood_emoji = ALLOWED_EMOJIS[Len(ALLOWED_EMOJIS)]

\* C13: every letter handed to save_letter has a display name of 1 to 30
\* characters, on the model path and on the fake-username path.
C13_DisplayNameLength ==
    letter.handed =>
        /\ Len(letter.display_name) >= 1
        /\ Len(letter.display_name) <= MaxDisplayNameLen

\* C14: the display name of the model-assisted path is lower-case and holds no
\* space on every path: model success, over-long response, model call error,
\* model unavailable.
C14_DisplayNameNormalized ==
    (script = "multi" /\ letter.handed) =>
        /\ Lower(letter.display_name) = letter.display_name
        /\ ~Contains(" ", letter.display_name)

\* the ways the model call of the transform stage fails: model unreachable,
\* exception, timeout, status other than 200, malformed response
TransformFailures ==
    { "unreachable", "exception", "error", "timeout", "status", "no_json",
      "missing_key", "eval_error", "eval_exit", "nonstring" }

\* the text the transform stage of the current post was given
TransformInput ==
    IF script = "multi" THEN posts[i].content ELSE CleanContent(posts[i].content)

\* C15: when the model call of the transform stage fails in any way, the letter
\* stores exactly the text the stage was given, and the post goes on through
\* assembly to save_letter.
C15_FailedTransformKeepsText ==
    (ResultsOf("transform_result") \cap TransformFailures # {}) =>
        /\ letter.handed
        /\ letter.content = TransformInput
        /\ \E k \in 1..Len(calls) : calls[k].stage = "insert"

\* the responses of the title-rewriting mode that do not parse into a pair with
\* both a title and a content
Unparseable == { "no_json", "missing_key", "eval_error", "eval_exit" }

\* the replies of the model that parse into a pair, as (title, content)
ModelPairs == { << r.title, r.content >> : r \in { q \in RewriteReplies : q.parsed = "pair" } }

\* C16: in the title-rewriting mode a response that does not parse into a pair
\* leaves the letter with the original title and the original cleaned content
\* and never makes the post fail; the letter's (title, content) is the model's
\* pair or the original pair, never a mix.
C16_UnparseableKeepsOriginalPair ==
    script = "single" =>
        /\ (ResultsOf("transform_result") \cap Unparseable # {}) =>
               /\ letter.handed
               /\ letter.title = posts[i].title
               /\ letter.content = CleanContent(posts[i].content)
        /\ letter.handed =>
               \/ << letter.title, letter.content >> \in ModelPairs
               \/ << letter.title, letter.content >>
                      = << posts[i].title, CleanContent(posts[i].content) >>

\* the number of posts that got a given outcome
CountOutcome(o) == Cardinality({ k \in 1..Len(outcomes) : outcomes[k] = o })

\* title + " " + body holds a disallowed phrase or the name of the platform, in
\* any letter case
Disallowed(post) ==
    \E text_lower \in {Lower(post.title \o " " \o post.content)} :
        \/ \E k \in 1..Len(SKIP_KEYWORDS) : Contains(Lower(SKIP_KEYWORDS[k]), text_lower)
        \/ Contains("reddit", text_lower)

C19_FailedSourceContributesNothing ==
    /\ \A k \in 1..Len(all_posts) :
           << all_posts[k].category_name, all_posts[k].subreddit >> \notin fetch_failed
    /\ fetch_failed # {} => pc # "aborted"

\* C20: when the insert returns no rows or raises, save_letter returns False
\* without raising: the saved count is not incremented, the post counts as
\* failed and the batch goes on; the saved count counts exactly the inserts
\* that returned rows.
C20_FailedInsertNotCounted ==
    /\ successful_saves = CountOutcome("saved")
    /\ \A k \in 1..Len(calls) :
           calls[k].stage = "insert" =>
               /\ pc = "loop"
               /\ Len(outcomes) = i
               /\ outcomes[i] = IF calls[k].input = "rows" THEN "saved" ELSE "failed"
    /\ summary.printed =>
           /\ summary.saved = CountOutcome("saved")
           /\ summary.processed - summary.saved - summary.skipped
                  = CountOutcome("failed")

\* an insert that raised on a post that is not the last: counted as failed, the
\* saved count as before, the loop ready for the next post
C20_Witness ==
    /\ pc = "loop"
    /\ i > 0 /\ i < Len(posts)
    /\ \E k \in 1..Len(calls) : calls[k].stage = "insert" /\ calls[k].input = "error"
    /\ outcomes[i] = "failed"
    /\ successful_saves = CountOutcome("saved")

\* the pacing delay of the running script
Pace == IF script = "single" THEN SleepSingle ELSE SleepMulti

\* C21: every call of the persistence collaborator, whether the insert returned
\* rows, returned none or raised, is followed at once by the pacing delay of
\* the script, so the delay has elapsed when the loop takes up the next post
\* and lies between any two persistence calls.
C21_DelayAfterEverySave ==
    /\ \A k \in 1..Len(calls) :
           calls[k].stage = "insert" =>
               /\ k < Len(calls)
               /\ calls[k + 1] = Event("sleep", Pace)
    /\ ( /\ pc = "loop"
         /\ \E k \in 1..Len(calls) : calls[k].stage = "insert" )
       => calls[Len(calls)] = Event("sleep", Pace)

\* after an earlier post was saved, an insert that returned no rows is followed
\* by the delay before the loop takes up the next post
C21_Witness ==
    /\ pc = "loop"
    /\ script = "multi"
    /\ Len(calls) >= 2
    /\ calls[Len(calls) - 1] = Event("insert", "no_rows")
    /\ calls[Len(calls)] = Event("sleep", SleepMulti)
    /\ successful_saves >= 1
    /\ outcomes[Len(outcomes)] = "failed"

\* the place of a logged stage in the order safety-filter, classify, transform,
\* synthesize metadata, persist, delay
StageRank(stage) ==
    CASE stage \in { "safety_accept", "safety_reject" } -> 1
      [] stage = "classify" -> 2
      [] stage \in { "rewrite", "expand", "transform_result" } -> 3
      [] stage \in { "emoji", "display_name" } -> 4
      [] stage = "insert" -> 5
      [] stage = "sleep" -> 6

\* the logged stages of the iteration follow one another in the order of
\* StageRank
InRankOrder ==
    \A j, k \in 1..Len(calls) :
        j < k => StageRank(calls[j].stage) <= StageRank(calls[k].stage)

\* the model is asked for the mood tag and the display name with the content
\* the transform stage left
MetadataFromFinalContent ==
    \A k \in 1..Len(calls) :
        calls[k].stage \in { "emoji", "display_name" } =>
            /\ calls[k].input = rewritten_content
            /\ letter.handed => calls[k].input = letter.content

C25_CountsPartitionPosts ==
    summary.printed =>
        /\ summary.processed = Len(posts)
        /\ summary.processed = summary.skipped + summary.saved + summary.failed
        /\ summary.failed >= 0
        /\ Len(outcomes) = summary.processed
        /\ \A k \in 1..Len(outcomes) : outcomes[k] \in { "skipped", "saved", "failed" }
        /\ summary.skipped = CountOutcome("skipped")
        /\ summary.saved = CountOutcome("saved")
        /\ summary.failed = CountOutcome("failed")

\* a reported batch of populate_from_multiple_subreddits.py with a skipped, a
\* saved and a failed post
C25_Witness ==
    /\ summary.printed
    /\ script = "multi"
    /\ summary.skipped >= 1
    /\ summary.saved >= 1
    /\ summary.failed >= 1
    /\ summary.processed >= 3

(***************************************************************************)
(* Properties of the safety filter (checked under FilterSpec).              *)
(***************************************************************************)
\* the configured phrases contained in the harness text, letter case ignored,
\* by their index in SKIP_KEYWORDS
PhrasesIn ==
    { k \in 1..Len(SKIP_KEYWORDS) :
        Contains(Lower(SKIP_KEYWORDS[k]), Lower(post_content)) }

\* C17 as stated: for every configured phrase that occurs in the text in any
\* letter case, the filter rejects the text and reports that phrase as the
\* reason.
C17_RejectsWithEveryPhrase ==
    screened.done =>
        \A k \in PhrasesIn :
            screened.rejected /\ screened.reason = SKIP_KEYWORDS[k]

\* C17 (amended): a text in which a configured phrase occurs in any letter case
\* is rejected, and the reason reported is the first phrase, in configured
\* order, that occurs in it; a text in which none occurs is accepted.
C17_RejectsWithFirstPhrase ==
    screened.done =>
        \A hits \in {PhrasesIn} :
            IF hits # {}
            THEN screened.rejected /\ screened.reason = SKIP_KEYWORDS[Least(hits)]
            ELSE ~screened.rejected /\ screened.reason = None

\* a text holding two configured phrases in upper case, the later-configured
\* one first in the text: the earlier-configured one is reported
C17_Witness ==
    /\ screened.done /\ screened.rejected
    /\ Cardinality(PhrasesIn) >= 2
    /\ post_content = "TERRORISM ABUSE"
    /\ screened.reason = "abuse"

(***************************************************************************)
(* Properties of the normalizer (checked under NormalizerSpec).             *)
(***************************************************************************)
\* a match of https?://\S+ in s
HasUrl(s) == \E t \in {s} : \E k \in 1..Len(t) : UrlSchemeAt(t, k) > 0

\* C22: for every raw body that contains a URL substring, the output of the
\* normalizer contains no URL substring, URLs that the later rules put
\* together included.
C22_OutputHasNoUrl ==
    (normalized.done /\ HasUrl(post_content)) => ~HasUrl(normalized.output)

(***************************************************************************)
(* Properties of the mood tag (checked under EmojiSpec).                    *)
(***************************************************************************)
\* the model was asked and its reply names no allowed emoji first
ReplyNotInSet(reply) ==
    /\ reply.kind = "ok"
    /\ LET in_range(cp) == EmojiRangeLow <= cp /\ cp <= EmojiRangeHigh
           found == SelectSeq(reply.content, in_range)
       IN  Len(found) = 0 \/ found[1] \notin AllowedEmojiSet

\* the mood tags ollama_get_emoji may return for a state of the collaborator
\* and a reply, over the draws of random.choice
PossibleTags(running, reply) ==
    { OllamaGetEmoji(running, reply, rnd) : rnd \in EmojiChoices }

\* the three fallback cases: model unavailable, output not matching the set,
\* model call error
FallbackCase ==
    \/ ~tagged.running
    \/ tagged.reply.kind = "error"
    \/ ReplyNotInSet(tagged.reply)

\* C24 as stated: in each of the three fallback cases every member of the
\* allowed set is a possible mood tag.
C24_EveryFallbackDrawsWholeSet ==
    (tagged.done /\ FallbackCase) =>
        PossibleTags(tagged.running, tagged.reply) = AllowedEmojiSet

\* C24, amended: when the model was called and raised, or its output names no
\* allowed emoji first, the mood tag is the member random.choice drew and
\* every member of the allowed set is a possible result; when the model is
\* unavailable the mood tag is the one default symbol.
C24_CalledFallbackDrawsWholeSet ==
    tagged.done =>
        /\ ~tagged.running =>
               /\ tagged.mood_emoji = DEFAULT_EMOJI
               /\ PossibleTags(tagged.running, tagged.reply) = { DEFAULT_EMOJI }
        /\ (tagged.running /\ FallbackCase) =>
               /\ tagged.mood_emoji = ALLOWED_EMOJIS[tagged.rnd]
               /\ PossibleTags(tagged.running, tagged.reply) = AllowedEmojiSet

\* the model raised and the draw was the last member of the set
C24_Witness ==
    /\ tagged.done
    /\ tagged.running
    /\ tagged.reply.kind = "error"
    /\ tagged.rnd = Len(ALLOWED_EMOJIS)
    /\ tagged.mood_emoji = ALLOWED_EMOJIS[Len(ALLOWED_EMOJIS)]
    /\ tagged.mood_emoji # DEFAULT_EMOJI

====
